---- MODULE Spec2Model ----
(***************************************************************************)
(* A model of the ten demonstration scripts of deep-tech-demos.  Each      *)
(* mechanism a demo exercises (import hooks, context variables, threads,   *)
(* asyncio tasks, sentinel defaults, read-only mapping views, validating   *)
(* and caching descriptors, name scopes, weak listeners, finalizers) is a  *)
(* small state machine with its own specification; the specification Spec  *)
(* runs a whole script from its entry point.                               *)
(***************************************************************************)
EXTENDS Integers, Sequences, FiniteSets, TLC

VARIABLES
    \* the import system (06_custom_import_hooks.py)
    sys_modules,      \* names bound in sys.modules
    meta_path,        \* sys.meta_path, a sequence of finders
    last_import,      \* the last import statement: name, exception, blocker installed
    \* the running script (all ten files)
    script,           \* which file runs as __main__ (0: none)
    demoIdx,          \* index of the next demo_* call of the entry point
    stmtIdx,          \* 0 between demos, else the next statement of the running demo
    called,           \* the demo_* functions called so far, in order
    banner,           \* the closing banner has been printed
    propagated,       \* the exception that reached the entry point, or "none"
    module_globals,   \* module-level names bound by demos
    main_ctx,         \* context variables set in the main context
    exit_handlers,    \* handlers registered with atexit
    snapshot,         \* the state at the entry of the running (or last) demo
    \* descriptors (01_descriptor_protocol.py)
    user_dict,        \* __dict__ of a User instance (Typed attributes)
    account_dict,     \* __dict__ of an Account instance (Validator attributes)
    last_set,         \* the last assignment through a descriptor
    \* read-only views (08_mapping_proxy_type.py)
    data,             \* the underlying dict
    proxy_made,       \* the dict's content when MappingProxyType(data) was made
    last_op,          \* the last operation on the dict or through the view
    \* sentinel defaults (09_late_bound_defaults.py)
    sent_call,        \* the last call: function and explicitly passed arguments
    sent_out,         \* what that call printed
    \* tokens (10_contextvars.py, demo_token_reset)
    tok_value,        \* counter's value in the current context, or MISSING
    tokens,           \* the tokens returned by counter.set, in order
    tok_trace,        \* the operations performed on counter
    tok_result,       \* the last counter.get() result or the exception of a reset
    \* threads (10_contextvars.py, demo_threading_isolation)
    thr_pc,           \* each worker thread's position
    thr_ctx,          \* counter's value in each context (0: main, i: worker i)
    thr_read,         \* what each worker read back after its sleep
    main_pc,          \* the main thread's position
    main_read,        \* what the main thread read after the joins
    \* asyncio tasks (10_contextvars.py, the three async demos)
    a_demo,           \* which async demo runs (4, 6 or 10)
    a_args,           \* the arguments of the three coroutines given to gather
    task_pc,          \* each task's next step
    task_ctx,         \* each task's context: variable -> value
    running,          \* the task the event loop is running (0: none)
    a_log,            \* the lines printed: task, values read from the context
    a_results,        \* what the finished tasks returned
    \* name scopes (10_contextvars.py, demo_vs_global)
    vg_pc,            \* position in demo_vs_global ("off": not modelled)
    vg_args,          \* the two string literals of the demo
    vg_locals,        \* local variables of the running demo_vs_global frame
    vg_module,        \* module-level names of 10_contextvars
    vg_ctx,           \* context_value in the main context, or "<MISSING>"
    vg_out,           \* the pairs of values the demo printed
    \* lazy properties (01_descriptor_protocol.py, demo_lazy_property)
    lz_inst,          \* each DataProcessor: made, data, __dict__ entry, count, reads
    lz_last,          \* the last read of expensive_result: instance, value, computed
    \* observers (03_weak_references.py, demo_observer_pattern)
    ob_state,         \* each Observer: "none", "alive", "unreferenced" or "collected"
    em_listeners,     \* EventEmitter._listeners: weak references, by observer
    em_last,          \* the emit that has just run: listeners before, calls made, count
    \* connection pool (07_weakref_finalize.py, demo_practical_database)
    pool,             \* ConnectionPool: active_connections, total_created
    conns,            \* the connections created, in order: id, database, state
    returned,         \* the conn_id of every _return_connection call, in order
    \* finalizers (07_weakref_finalize.py, FileResource, ManagedResource, SafeResource)
    res,              \* each resource: class, state, finalizer.alive, callback runs
    fin_read          \* the last is_alive(): resource, result, callback runs so far

importVars == <<sys_modules, meta_path, last_import>>
runVars == <<script, demoIdx, stmtIdx, called, banner, propagated,
             module_globals, main_ctx, exit_handlers, snapshot>>
descVars == <<user_dict, account_dict, last_set>>
proxyVars == <<data, proxy_made, last_op>>
sentVars == <<sent_call, sent_out>>
tokVars == <<tok_value, tokens, tok_trace, tok_result>>
thrVars == <<thr_pc, thr_ctx, thr_read, main_pc, main_read>>
asyncVars == <<a_demo, a_args, task_pc, task_ctx, running, a_log, a_results>>
scopeVars == <<vg_pc, vg_args, vg_locals, vg_module, vg_ctx, vg_out>>
\* The variables of the specifications added after the first eight.
lazyVars == <<lz_inst, lz_last>>
emitVars == <<ob_state, em_listeners, em_last>>
poolVars == <<pool, conns, returned>>
finVars == <<res, fin_read>>
extVars == <<scopeVars, lazyVars, emitVars, poolVars, finVars>>
oldVars == <<importVars, runVars, descVars, proxyVars, sentVars, tokVars,
             thrVars, asyncVars>>
vars == <<oldVars, extVars>>

\* What each specification leaves alone.
notImport == <<runVars, descVars, proxyVars, sentVars, tokVars, thrVars, asyncVars,
               extVars>>
notRun == <<descVars, proxyVars, sentVars, tokVars, thrVars, asyncVars, extVars>>
notDesc == <<importVars, runVars, proxyVars, sentVars, tokVars, thrVars, asyncVars, extVars>>
notProxy == <<importVars, runVars, descVars, sentVars, tokVars, thrVars, asyncVars, extVars>>
notSent == <<importVars, runVars, descVars, proxyVars, tokVars, thrVars, asyncVars, extVars>>
notTok == <<importVars, runVars, descVars, proxyVars, sentVars, thrVars, asyncVars, extVars>>
notThr == <<importVars, runVars, descVars, proxyVars, sentVars, tokVars, asyncVars, extVars>>
notAsync == <<importVars, runVars, descVars, proxyVars, sentVars, tokVars, thrVars, extVars>>

notScope == <<oldVars, lazyVars, emitVars, poolVars, finVars>>
notLazy == <<oldVars, scopeVars, emitVars, poolVars, finVars>>
notEmit == <<oldVars, scopeVars, lazyVars, poolVars, finVars>>
notPool == <<oldVars, scopeVars, lazyVars, emitVars, finVars>>
notFin == <<oldVars, scopeVars, lazyVars, emitVars, poolVars>>

NoExc == "none"

ScopeIdle ==
    /\ vg_pc = "off"
    /\ vg_args = <<>>
    /\ vg_locals = {}
    /\ vg_module = {}
    /\ vg_ctx = ""
    /\ vg_out = <<>>

\* The later specifications' variables, unused in the first eight.
LazyIdle ==
    /\ lz_inst = <<>>
    /\ lz_last = <<>>

EmitIdle ==
    /\ ob_state = <<>>
    /\ em_listeners = <<>>
    /\ em_last = <<>>

PoolIdle ==
    /\ pool = <<>>
    /\ conns = <<>>
    /\ returned = <<>>

FinIdle ==
    /\ res = <<>>
    /\ fin_read = <<>>

ExtIdle == ScopeIdle /\ LazyIdle /\ EmitIdle /\ PoolIdle /\ FinIdle

\* Sequence helpers.
RECURSIVE IndexOf(_, _, _)
IndexOf(s, x, i) ==
    IF i > Len(s) THEN 0
    ELSE IF s[i] = x THEN i
    ELSE IndexOf(s, x, i + 1)

\* list.insert(0, x)
InsertFront(s, x) == <<x>> \o s

\* list.remove(x): removes the first occurrence
ListRemove(s, x) ==
    LET i == IndexOf(s, x, 1)
    IN  IF i = 0 THEN s
        ELSE SubSeq(s, 1, i - 1) \o SubSeq(s, i + 1, Len(s))

(***************************************************************************)
(* Python values: a type name, a number (int and bool) and the characters  *)
(* of a string.                                                            *)
(***************************************************************************)
IntV(n) == [t |-> "int", n |-> n, s |-> <<>>]
BoolV(b) == [t |-> "bool", n |-> IF b THEN 1 ELSE 0, s |-> <<>>]
StrV(chars) == [t |-> "str", n |-> 0, s |-> chars]
NoneV == [t |-> "NoneType", n |-> 0, s |-> <<>>]
\* a key missing from an instance __dict__
Absent == [t |-> "<absent>", n |-> 0, s |-> <<>>]

S_Alice == <<"A", "l", "i", "c", "e">>
S_thirty_one == <<"3", "1">>
S_user_at_example == <<"u", "@", "e", ".", "c">>
S_invalid_email == <<"b", "a", "d">>

\* isinstance(value, cls); bool is a subclass of int
IsInstance(value, cls) ==
    \/ value.t = cls
    \/ value.t = "bool" /\ cls = "int"

\* x in s for a single character x
RECURSIVE CharIn(_, _, _)
CharIn(c, s, i) ==
    IF i > Len(s) THEN FALSE
    ELSE IF s[i] = c THEN TRUE
    ELSE CharIn(c, s, i + 1)

(***************************************************************************)
(* 01_descriptor_protocol.py: the Typed and Validator descriptors.         *)
(***************************************************************************)

\* The expected_type each Typed attribute of User was declared with.
ExpectedType(name) == IF name = "age" THEN "int" ELSE "str"

\* A mutant of Typed.__set__: stores the value before it checks the type.
TypedSetStoreFirst(dict, name, value) ==
    IF ~IsInstance(value, ExpectedType(name))
    THEN [exc |-> "TypeError", dict |-> [dict EXCEPT ![name] = value]]
    ELSE [exc |-> NoExc, dict |-> [dict EXCEPT ![name] = value]]

\* Typed.__set__
TypedSet(dict, name, value) ==
    IF ~IsInstance(value, ExpectedType(name))
    THEN [exc |-> "TypeError", dict |-> dict]
    ELSE [exc |-> NoExc, dict |-> [dict EXCEPT ![name] = value]]

\* The validator_func of each Validator attribute of Account: its result
\* "True" or "False", or the exception the lambda itself raises.
\*   balance: lambda x: x >= 0
\*   email:   lambda x: isinstance(x, str) and "@" in x
ValidatorFunc(name, value) ==
    IF name = "balance"
    THEN IF value.t \in {"int", "bool"}
         THEN (IF value.n >= 0 THEN "True" ELSE "False")
         ELSE "TypeError"
    ELSE IF IsInstance(value, "str") /\ CharIn("@", value.s, 1)
         THEN "True" ELSE "False"

\* Validator.__set__
ValidatorSet(dict, name, value) ==
    LET ok == ValidatorFunc(name, value)
    IN  IF ok = "TypeError" THEN [exc |-> "TypeError", dict |-> dict]
        ELSE IF ok = "False" THEN [exc |-> "ValueError", dict |-> dict]
        ELSE [exc |-> NoExc, dict |-> [dict EXCEPT ![name] = value]]

(***************************************************************************)
(* The import system.                                                      *)
(***************************************************************************)

\* Modules the standard finders can locate.
StdlibModules == {"sys", "os", "json", "math", "random", "datetime",
                  "collections", "hashlib", "pathlib"}

\* Names an import statement of the script may ask for.
ImportNames == StdlibModules \cup
    {"dynamic_test_module", "dynamic_another_module", "mymath", "myjson"}

\* sys.meta_path of a fresh interpreter.
DefaultMetaPath == <<"BuiltinImporter", "FrozenImporter", "PathFinder">>

\* sys.modules when the first demo starts: the script's own top-level imports
\* are done; whether 'os' is already loaded depends on the interpreter's
\* start-up (site, importlib's own imports).
StartupModules == {"sys", "math", "collections"}
StartupChoices == {StartupModules, StartupModules \cup {"os"}}

\* ImportBlocker(['json', 'os'])
BlockedModules == {"json", "os"}

\* ImportRedirector's table
Redirects == [n \in {"mymath", "myjson"} |-> IF n = "mymath" THEN "math" ELSE "json"]

Raise(e) == [kind |-> "raise", exc |-> e, name |-> ""]
NotFound == [kind |-> "none", exc |-> NoExc, name |-> ""]
Found(n) == [kind |-> "found", exc |-> NoExc, name |-> n]

IsDynamicName(n) == n \in {"dynamic_test_module", "dynamic_another_module"}

\* One standard finder's find_spec.
StdFindSpec(finder, fullname) ==
    IF finder = "BuiltinImporter" /\ fullname \in {"sys", "math"} THEN Found(fullname)
    ELSE IF finder = "FrozenImporter" /\ fullname = "os" THEN Found(fullname)
    ELSE IF finder = "PathFinder" /\ fullname \in StdlibModules \ {"sys", "math", "os"}
         THEN Found(fullname)
    ELSE NotFound

RECURSIVE StdFindFirst(_, _, _)
StdFindFirst(path, i, fullname) ==
    IF i > Len(path) THEN NotFound
    ELSE LET r == StdFindSpec(path[i], fullname)
         IN  IF r.kind # "none" THEN r ELSE StdFindFirst(path, i + 1, fullname)

\* ImportBlocker.find_spec
ImportBlockerFindSpec(fullname) ==
    IF fullname \in BlockedModules THEN Raise("ImportError") ELSE NotFound

\* find_spec of the finder at position i of path.
FindSpec(path, i, fullname) ==
    LET finder == path[i]
    IN  CASE finder = "ImportBlocker" -> ImportBlockerFindSpec(fullname)
          [] finder = "ImportLogger" -> NotFound
          [] finder = "DeprecationChecker" -> NotFound
          [] finder = "DynamicModuleFinder" ->
                IF IsDynamicName(fullname) THEN Found(fullname) ELSE NotFound
          [] finder = "ImportRedirector" ->
                IF fullname \in DOMAIN Redirects
                THEN StdFindFirst(DefaultMetaPath, 1, Redirects[fullname])
                ELSE NotFound
          [] finder = "ImportProfiler" ->
                \* asks the finders of sys.meta_path[1:] itself
                StdFindFirst(SubSeq(path, 2, Len(path)), 1, fullname)
          [] OTHER -> StdFindSpec(finder, fullname)

\* The finders of sys.meta_path are asked in order; the first that raises
\* or finds a spec decides.
RECURSIVE FindFirst(_, _, _)
FindFirst(path, i, fullname) ==
    IF i > Len(path) THEN NotFound
    ELSE LET r == FindSpec(path, i, fullname)
         IN  IF r.kind # "none" THEN r ELSE FindFirst(path, i + 1, fullname)

\* The import statement: a module already in sys.modules is bound without
\* asking any finder; otherwise the finders decide and a found module is
\* stored under its spec's name.
ImportModule(fullname, modules, path) ==
    IF fullname \in modules
    THEN [exc |-> NoExc, modules |-> modules]
    ELSE LET r == FindFirst(path, 1, fullname)
         IN  CASE r.kind = "raise" -> [exc |-> r.exc, modules |-> modules]
               [] r.kind = "found" -> [exc |-> NoExc, modules |-> modules \cup {r.name}]
               [] OTHER -> [exc |-> "ModuleNotFoundError", modules |-> modules]

BlockerInstalled(path) == Len(path) > 0 /\ path[1] = "ImportBlocker"

NoImport == [name |-> "", exc |-> NoExc, blocker |-> FALSE]

RunIdle ==
    /\ script = 0
    /\ demoIdx = 0
    /\ stmtIdx = 0
    /\ called = <<>>
    /\ banner = FALSE
    /\ propagated = NoExc
    /\ module_globals = {}
    /\ main_ctx = <<>>
    /\ exit_handlers = <<>>
    /\ snapshot = <<>>

ImportIdle ==
    /\ sys_modules = {}
    /\ meta_path = <<>>
    /\ last_import = NoImport

DescIdle ==
    /\ user_dict = <<>>
    /\ account_dict = <<>>
    /\ last_set = <<>>

ProxyIdle ==
    /\ data = <<>>
    /\ proxy_made = <<>>
    /\ last_op = <<>>

SentIdle ==
    /\ sent_call = <<>>
    /\ sent_out = <<>>

TokIdle ==
    /\ tok_value = 0
    /\ tokens = <<>>
    /\ tok_trace = <<>>
    /\ tok_result = <<>>

ThrIdle ==
    /\ thr_pc = <<>>
    /\ thr_ctx = <<>>
    /\ thr_read = <<>>
    /\ main_pc = ""
    /\ main_read = 0

AsyncIdle ==
    /\ a_demo = 0
    /\ a_args = <<>>
    /\ task_pc = <<>>
    /\ task_ctx = <<>>
    /\ running = 0
    /\ a_log = <<>>
    /\ a_results = <<>>

ImportInit ==
    /\ sys_modules \in StartupChoices
    /\ meta_path = DefaultMetaPath
    /\ last_import = NoImport
    /\ RunIdle /\ DescIdle /\ ProxyIdle /\ SentIdle /\ TokIdle /\ ThrIdle /\ AsyncIdle /\ ExtIdle

\* sys.meta_path.insert(0, blocker)
InstallBlocker ==
    /\ IndexOf(meta_path, "ImportBlocker", 1) = 0
    /\ meta_path' = InsertFront(meta_path, "ImportBlocker")
    /\ UNCHANGED <<sys_modules, last_import, notImport>>

\* sys.meta_path.remove(blocker)
RemoveBlocker ==
    /\ IndexOf(meta_path, "ImportBlocker", 1) # 0
    /\ meta_path' = ListRemove(meta_path, "ImportBlocker")
    /\ UNCHANGED <<sys_modules, last_import, notImport>>

\* import <name>
ImportStatement ==
    \E n \in StdlibModules :
        LET r == ImportModule(n, sys_modules, meta_path)
        IN  /\ sys_modules' = r.modules
            /\ last_import' = [name |-> n, exc |-> r.exc,
                               blocker |-> BlockerInstalled(meta_path)]
            /\ UNCHANGED <<meta_path, notImport>>

ImportNext == InstallBlocker \/ RemoveBlocker \/ ImportStatement

SpecImport == ImportInit /\ [][ImportNext]_vars

\* C9: while an ImportBlocker is at the front of sys.meta_path, every import
\* statement for a blocked name ('json', 'os') raises ImportError and every
\* import of another name succeeds as it would without the blocker.
C9_BlockedImportRaises ==
    last_import.blocker =>
        IF last_import.name \in BlockedModules
        THEN last_import.exc = "ImportError"
        ELSE last_import.exc = NoExc

\* A blocked import that was attempted with the blocker installed.
C9_BlockedImportAttempted ==
    /\ last_import.blocker
    /\ last_import.name = "json"
    /\ last_import.exc = "ImportError"

(***************************************************************************)
(* SpecDesc: assignments through the descriptors of 01_descriptor_protocol *)
(***************************************************************************)

\* Values a caller may assign.
DescValues == {IntV(30), IntV(31), IntV(0 - 100), BoolV(TRUE), NoneV,
               StrV(S_Alice), StrV(S_thirty_one), StrV(S_user_at_example),
               StrV(S_invalid_email)}

DescInit ==
    /\ user_dict = [a \in {"name", "age"} |-> Absent]
    /\ account_dict = [a \in {"email", "balance"} |-> Absent]
    /\ last_set = [desc |-> "", name |-> "", value |-> Absent, exc |-> NoExc,
                   before |-> Absent]
    /\ ImportIdle /\ RunIdle /\ ProxyIdle /\ SentIdle /\ TokIdle /\ ThrIdle /\ AsyncIdle /\ ExtIdle

\* user.<name> = value: an attribute assignment, an exception leaves the
\* statement without any other effect
AssignTyped ==
    \E name \in {"name", "age"}, value \in DescValues :
        LET r == TypedSet(user_dict, name, value)
        IN  /\ user_dict' = r.dict
            /\ last_set' = [desc |-> "Typed", name |-> name, value |-> value,
                            exc |-> r.exc, before |-> user_dict[name]]
            /\ UNCHANGED <<account_dict, notDesc>>

\* account.<name> = value
AssignValidator ==
    \E name \in {"email", "balance"}, value \in DescValues :
        LET r == ValidatorSet(account_dict, name, value)
        IN  /\ account_dict' = r.dict
            /\ last_set' = [desc |-> "Validator", name |-> name, value |-> value,
                            exc |-> r.exc, before |-> account_dict[name]]
            /\ UNCHANGED <<user_dict, notDesc>>

DescNext == AssignTyped \/ AssignValidator

SpecDesc == DescInit /\ [][DescNext]_vars

\* The attribute the last assignment went to, as it is stored now.
StoredNow ==
    IF last_set.desc = "Typed" THEN user_dict[last_set.name]
    ELSE account_dict[last_set.name]

\* C8: a rejected assignment through a validating descriptor changes nothing:
\* a value of the wrong type raises TypeError through Typed, a value the
\* validator function rejects raises ValueError through Validator, the
\* attribute keeps its previous value in both cases, and so every stored
\* value is an instance of the expected type (Typed) or satisfies the
\* validator (an Account balance is never negative).
C8_RejectedAssignmentChangesNothing ==
    /\ last_set.desc = "Typed" =>
          /\ (last_set.value.t \notin
                 (IF last_set.name = "age" THEN {"int", "bool"} ELSE {"str"}))
                => last_set.exc = "TypeError"
    /\ last_set.desc = "Validator" /\ last_set.name = "balance"
          /\ last_set.value.t \in {"int", "bool"} /\ last_set.value.n < 0
          => last_set.exc = "ValueError"
    /\ last_set.desc = "Validator" /\ last_set.name = "email"
          /\ (last_set.value.t # "str" \/ \A i \in DOMAIN last_set.value.s :
                                             last_set.value.s[i] # "@")
          => last_set.exc = "ValueError"
    /\ last_set.desc # "" /\ last_set.exc # NoExc => StoredNow = last_set.before
    /\ last_set.desc # "" /\ last_set.exc = NoExc => StoredNow = last_set.value
    /\ user_dict["age"] # Absent => user_dict["age"].t \in {"int", "bool"}
    /\ user_dict["name"] # Absent => user_dict["name"].t = "str"
    /\ account_dict["balance"] # Absent => account_dict["balance"].n >= 0
    /\ account_dict["email"] # Absent =>
          /\ account_dict["email"].t = "str"
          /\ \E i \in DOMAIN account_dict["email"].s : account_dict["email"].s[i] = "@"

\* A rejected assignment to an attribute that already held a valid value.
C8_RejectedAfterValid ==
    /\ last_set.desc = "Validator"
    /\ last_set.name = "balance"
    /\ last_set.exc = "ValueError"
    /\ last_set.before = IntV(30)
    /\ account_dict["balance"] = IntV(30)
    /\ user_dict["age"] = IntV(31)

(***************************************************************************)
(* SpecProxy: a dict and a MappingProxyType view of it                     *)
(* (08_mapping_proxy_type.py).  A dict is a function from the keys to the  *)
(* stored value, Absent for a key that is not in it.                       *)
(***************************************************************************)

ProxyKeys == {"debug", "timeout", "new_key"}
ProxyValues == {BoolV(FALSE), BoolV(TRUE), IntV(30)}

\* config = {"debug": False, "timeout": 30, ...}
InitialConfig ==
    [k \in ProxyKeys |-> CASE k = "debug" -> BoolV(FALSE)
                           [] k = "timeout" -> IntV(30)
                           [] OTHER -> Absent]

\* A mutant of the view: a copy of the dict taken when the view was made.
ProxyViewSnapshot(dict, made) == made

\* What the view shows: MappingProxyType(data) keeps a reference to data.
ProxyView(dict, made) == dict

\* readonly_config[key] = value
ProxySetItem(dict, key, value) == [exc |-> "TypeError", dict |-> dict]

\* del readonly_config[key]
ProxyDelItem(dict, key) == [exc |-> "TypeError", dict |-> dict]

\* readonly_config[key]
ProxyGetItem(dict, made, key) ==
    LET v == ProxyView(dict, made)[key]
    IN  IF v = Absent THEN [exc |-> "KeyError", value |-> Absent]
        ELSE [exc |-> NoExc, value |-> v]

ProxyInit ==
    /\ data = InitialConfig
    /\ proxy_made = InitialConfig
    /\ last_op = [op |-> "MappingProxyType", key |-> "", exc |-> NoExc, value |-> Absent,
                  before |-> InitialConfig]
    /\ ImportIdle /\ RunIdle /\ DescIdle /\ SentIdle /\ TokIdle /\ ThrIdle /\ AsyncIdle /\ ExtIdle

Op(op, key, exc, value) ==
    [op |-> op, key |-> key, exc |-> exc, value |-> value, before |-> data]

\* data[key] = value on the underlying dict
DictSetItem ==
    \E key \in ProxyKeys, value \in ProxyValues :
        /\ data' = [data EXCEPT ![key] = value]
        /\ last_op' = Op("dict_setitem", key, NoExc, value)
        /\ UNCHANGED <<proxy_made, notProxy>>

\* Config.reset: clear() and update() with the defaults
ConfigReset ==
    /\ data' = InitialConfig
    /\ last_op' = Op("reset", "", NoExc, Absent)
    /\ UNCHANGED <<proxy_made, notProxy>>

\* try: readonly[key] = value  except TypeError
ViewSetItem ==
    \E key \in ProxyKeys, value \in ProxyValues :
        LET r == ProxySetItem(data, key, value)
        IN  /\ data' = r.dict
            /\ last_op' = Op("proxy_setitem", key, r.exc, value)
            /\ UNCHANGED <<proxy_made, notProxy>>

\* try: del readonly[key]  except TypeError
ViewDelItem ==
    \E key \in ProxyKeys :
        LET r == ProxyDelItem(data, key)
        IN  /\ data' = r.dict
            /\ last_op' = Op("proxy_delitem", key, r.exc, Absent)
            /\ UNCHANGED <<proxy_made, notProxy>>

\* readonly[key]
ViewGetItem ==
    \E key \in ProxyKeys :
        LET r == ProxyGetItem(data, proxy_made, key)
        IN  /\ last_op' = Op("proxy_getitem", key, r.exc, r.value)
            /\ UNCHANGED <<data, proxy_made, notProxy>>

ProxyNext == DictSetItem \/ ConfigReset \/ ViewSetItem \/ ViewDelItem \/ ViewGetItem

SpecProxy == ProxyInit /\ [][ProxyNext]_vars

Object(id) == [t |-> "object", n |-> id, s |-> <<>>]

\* self.default_timeout, self.default_retries
default_timeout == 30
default_retries == 3

\* Values a caller may pass explicitly.
ArgValues == {NoneV, IntV(0), IntV(60), BoolV(FALSE), StrV(<<"d", "b">>)}

\* Parameter binding of a call: the passed value, else the default.
Bind(args, param, default) ==
    IF param \in DOMAIN args THEN args[param] ELSE default

\* All calls that pass any subset of params explicitly.
Calls(params, values) == UNION {[S -> values] : S \in SUBSET params}

\* A mutant of set_config's default: None, the classic pattern.
SetConfigDefaultNone == NoneV

\* _not_provided = object() of demo_distinguishing_none
SetConfigNotProvided == Object(1)

\* _not_provided = object() of demo_practical_api
RequestNotProvided == Object(2)

\* set_config(key, value=_not_provided); `is` is identity
SetConfig(args) ==
    LET value == Bind(args, "value", SetConfigNotProvided)
    IN  IF value = SetConfigNotProvided
        THEN [msg |-> "not set (keeping existing value)", value |-> Absent]
        ELSE IF value = NoneV
        THEN [msg |-> "explicitly set to None (clearing)", value |-> Absent]
        ELSE [msg |-> "set to", value |-> value]

\* APIClient.request(url, method="GET", timeout=..., retries=..., data=...)
Request(args) ==
    LET method == Bind(args, "method", StrV(<<"G", "E", "T">>))
        timeout == Bind(args, "timeout", RequestNotProvided)
        retries == Bind(args, "retries", RequestNotProvided)
        data_ == Bind(args, "data", RequestNotProvided)
        actual_timeout ==
            IF timeout = RequestNotProvided THEN IntV(default_timeout) ELSE timeout
        actual_retries ==
            IF retries = RequestNotProvided THEN IntV(default_retries) ELSE retries
    IN  [method |-> method,
         timeout |-> actual_timeout,
         retries |-> actual_retries,
         data_line |-> IF data_ # RequestNotProvided THEN "data: {data}"
                       ELSE "data: <none>",
         data |-> IF data_ # RequestNotProvided THEN data_ ELSE Absent]

SentInit ==
    /\ sent_call = [fn |-> "", args |-> <<>>]
    /\ sent_out = <<>>
    /\ ImportIdle /\ RunIdle /\ DescIdle /\ ProxyIdle /\ TokIdle /\ ThrIdle /\ AsyncIdle /\ ExtIdle

\* set_config("database_url"[, value])
CallSetConfig ==
    \E args \in Calls({"value"}, ArgValues) :
        /\ sent_call' = [fn |-> "set_config", args |-> args]
        /\ sent_out' = SetConfig(args)
        /\ UNCHANGED notSent

\* client.request("/api/users"[, method=...][, timeout=...][, retries=...][, data=...])
CallRequest ==
    \E args \in Calls({"timeout", "retries", "data"}, ArgValues),
       m \in Calls({"method"}, {StrV(<<"G", "E", "T">>), StrV(<<"P", "O", "S", "T">>)}) :
        /\ sent_call' = [fn |-> "request", args |-> args @@ m]
        /\ sent_out' = Request(args @@ m)
        /\ UNCHANGED notSent

SentNext == CallSetConfig \/ CallRequest

SpecSentinel == SentInit /\ [][SentNext]_vars

Passed(param) == param \in DOMAIN sent_call.args

\* C6: a sentinel default distinguishes an omitted argument from every
\* explicitly passed value: set_config reports 'not set' only when value is
\* omitted, 'explicitly set to None' exactly when None is passed and 'set to
\* <value>' otherwise; request uses default_timeout 30 and default_retries 3
\* only for omitted arguments (retries=0 yields 0) and reports data=None as
\* provided data, not as '<none>'.
C6_SentinelDistinguishesOmitted ==
    /\ sent_call.fn = "set_config" =>
          /\ (sent_out.msg = "not set (keeping existing value)") <=> ~Passed("value")
          /\ (sent_out.msg = "explicitly set to None (clearing)")
                <=> (Passed("value") /\ sent_call.args["value"].t = "NoneType")
          /\ (Passed("value") /\ sent_call.args["value"].t # "NoneType")
                => (sent_out.msg = "set to" /\ sent_out.value = sent_call.args["value"])
    /\ sent_call.fn = "request" =>
          /\ sent_out.timeout =
                (IF Passed("timeout") THEN sent_call.args["timeout"] ELSE IntV(30))
          /\ sent_out.retries =
                (IF Passed("retries") THEN sent_call.args["retries"] ELSE IntV(3))
          /\ (sent_out.data_line = "data: <none>") <=> ~Passed("data")
          /\ Passed("data") => sent_out.data = sent_call.args["data"]

\* client.request(..., retries=0, data=None): both passed explicitly.
C6_ExplicitZeroAndNone ==
    /\ sent_call.fn = "request"
    /\ Passed("retries") /\ sent_call.args["retries"] = IntV(0)
    /\ Passed("data") /\ sent_call.args["data"] = NoneV
    /\ ~Passed("timeout")
    /\ sent_out.retries = IntV(0)
    /\ sent_out.data_line = "data: {data}"

(***************************************************************************)
(* SpecToken: ContextVar.set, reset and get on one variable in one context *)
(* (10_contextvars.py, demo_token_reset).                                  *)
(***************************************************************************)

\* How many counter.set calls, and how many operations, a run makes.
MaxTokens == 2
MaxOps == 5

\* counter = ContextVar('counter', default=0)
CounterDefault == IntV(0)

\* Values the demo sets.
TokenValues == {IntV(10), IntV(20)}

\* counter.set(value): the token remembers the value the variable had
\* before this set (Absent: it had none, Token.MISSING).
VarSet(value, current, toks) ==
    [value |-> value,
     tokens |-> Append(toks, [old_value |-> current, used |-> FALSE])]

\* counter.reset(token): restores the value the variable had before the
\* set that made the token; a token is used once.
VarReset(i, current, toks) ==
    IF toks[i].used
    THEN [exc |-> "RuntimeError", value |-> current, tokens |-> toks]
    ELSE [exc |-> NoExc, value |-> toks[i].old_value,
          tokens |-> [toks EXCEPT ![i].used = TRUE]]

\* counter.get(): the value in the context, else the default
VarGet(current, default) == IF current = Absent THEN default ELSE current

TraceOp(op, arg) == [op |-> op, arg |-> arg]

TokInit ==
    /\ tok_value = Absent
    /\ tokens = <<>>
    /\ tok_trace = <<>>
    /\ tok_result = [exc |-> NoExc, value |-> Absent]
    /\ ImportIdle /\ RunIdle /\ DescIdle /\ ProxyIdle /\ SentIdle /\ ThrIdle /\ AsyncIdle /\ ExtIdle

\* token = counter.set(value)
CounterSet ==
    \E value \in TokenValues :
        LET r == VarSet(value, tok_value, tokens)
        IN  /\ Len(tokens) < MaxTokens
            /\ Len(tok_trace) < MaxOps
            /\ tok_value' = r.value
            /\ tokens' = r.tokens
            /\ tok_trace' = Append(tok_trace, TraceOp("set", value.n))
            /\ tok_result' = [exc |-> NoExc, value |-> Absent]
            /\ UNCHANGED notTok

\* counter.reset(token_i)
CounterReset ==
    \E i \in DOMAIN tokens :
        LET r == VarReset(i, tok_value, tokens)
        IN  /\ Len(tok_trace) < MaxOps
            /\ tok_value' = r.value
            /\ tokens' = r.tokens
            /\ tok_trace' = Append(tok_trace, TraceOp("reset", i))
            /\ tok_result' = [exc |-> r.exc, value |-> Absent]
            /\ UNCHANGED notTok

\* counter.get()
CounterGet ==
    /\ Len(tok_trace) < MaxOps
    /\ tok_trace' = Append(tok_trace, TraceOp("get", 0))
    /\ tok_result' = [exc |-> NoExc, value |-> VarGet(tok_value, CounterDefault)]
    /\ UNCHANGED <<tok_value, tokens, notTok>>

TokNext == CounterSet \/ CounterReset \/ CounterGet

SpecToken == TokInit /\ [][TokNext]_vars

\* token1 = counter.set(10); token2 = counter.set(20); counter.reset(token1);
\* counter.get()
DemoTokenReset ==
    <<TraceOp("set", 10), TraceOp("set", 20), TraceOp("reset", 1), TraceOp("get", 0)>>

\* C10: in demo_token_reset, after counter.set(10) returned token1 and
\* counter.set(20) returned token2, counter.reset(token1) reverts the
\* variable so that counter.get() returns 10.
C10_ResetToken1Gives10 ==
    tok_trace = DemoTokenReset => tok_result.value = IntV(10)

\* The demo's four operations have run.
C10_DemoSequenceRan ==
    /\ tok_trace = DemoTokenReset
    /\ tokens[1].used /\ ~tokens[2].used
    /\ tok_result.value = IntV(0)

(***************************************************************************)
(* SpecThreads: demo_threading_isolation (10_contextvars.py).  The main    *)
(* thread starts three workers, joins them and reads the variable; the     *)
(* workers run in any interleaving.                                        *)
(***************************************************************************)

\* for i in range(3)
NumThreads == 3
Workers == 0 .. (NumThreads - 1)

\* counter = ContextVar('thread_counter', default=0)
ThreadCounterDefault == IntV(0)

\* args=(i, i * 10)
WorkerValue(i) == IntV(i * 10)

\* A mutant: one value shared by all threads, as a global variable would be.
ContextOfShared(i) == 0

\* The context a worker thread runs in: every thread has its own, the main
\* thread has context 0.
ContextOf(i) == i + 1

ThrInit ==
    /\ thr_pc = [i \in Workers |-> "unstarted"]
    /\ thr_ctx = [c \in 0 .. NumThreads |-> Absent]
    /\ thr_read = [i \in Workers |-> Absent]
    /\ main_pc = [at |-> "start", i |-> 0]
    /\ main_read = Absent
    /\ ImportIdle /\ RunIdle /\ DescIdle /\ ProxyIdle /\ SentIdle /\ TokIdle /\ AsyncIdle /\ ExtIdle

\* t = threading.Thread(target=worker, args=(i, i * 10)); t.start()
MainStart ==
    /\ main_pc.at = "start"
    /\ thr_pc' = [thr_pc EXCEPT ![main_pc.i] = "started"]
    /\ main_pc' = IF main_pc.i + 1 < NumThreads
                  THEN [at |-> "start", i |-> main_pc.i + 1]
                  ELSE [at |-> "join", i |-> 0]
    /\ UNCHANGED <<thr_ctx, thr_read, main_read, notThr>>

\* worker: counter.set(value), then time.sleep(0.1) begins
WorkerSet(i) ==
    /\ thr_pc[i] = "started"
    /\ thr_ctx' = [thr_ctx EXCEPT ![ContextOf(i)] = WorkerValue(i)]
    /\ thr_pc' = [thr_pc EXCEPT ![i] = "sleeping"]
    /\ UNCHANGED <<thr_read, main_pc, main_read, notThr>>

\* worker: time.sleep(0.1) returns
WorkerWake(i) ==
    /\ thr_pc[i] = "sleeping"
    /\ thr_pc' = [thr_pc EXCEPT ![i] = "awake"]
    /\ UNCHANGED <<thr_ctx, thr_read, main_pc, main_read, notThr>>

\* worker: print(counter.get()), and the thread ends
WorkerRead(i) ==
    /\ thr_pc[i] = "awake"
    /\ thr_read' = [thr_read EXCEPT
                       ![i] = VarGet(thr_ctx[ContextOf(i)], ThreadCounterDefault)]
    /\ thr_pc' = [thr_pc EXCEPT ![i] = "done"]
    /\ UNCHANGED <<thr_ctx, main_pc, main_read, notThr>>

\* for t in threads: t.join()
MainJoin ==
    /\ main_pc.at = "join"
    /\ thr_pc[main_pc.i] = "done"
    /\ main_pc' = IF main_pc.i + 1 < NumThreads
                  THEN [at |-> "join", i |-> main_pc.i + 1]
                  ELSE [at |-> "read", i |-> 0]
    /\ UNCHANGED <<thr_pc, thr_ctx, thr_read, main_read, notThr>>

\* print(f"Main thread: {counter.get()}")
MainRead ==
    /\ main_pc.at = "read"
    /\ main_read' = VarGet(thr_ctx[0], ThreadCounterDefault)
    /\ main_pc' = [at |-> "done", i |-> 0]
    /\ UNCHANGED <<thr_pc, thr_ctx, thr_read, notThr>>

ThrNext ==
    \/ MainStart
    \/ \E i \in Workers : WorkerSet(i)
    \/ \E i \in Workers : WorkerWake(i)
    \/ \E i \in Workers : WorkerRead(i)
    \/ MainJoin
    \/ MainRead

SpecThreads == ThrInit /\ [][ThrNext]_vars

\* C4: in demo_threading_isolation, under every interleaving of the three
\* worker threads, each worker reads back after its sleep exactly the value
\* it set itself (0, 10 or 20) and the main thread still reads the default 0
\* after all workers have been joined.
C4_WorkersReadOwnValue ==
    /\ \A i \in Workers :
          thr_pc[i] = "done" => thr_read[i] = [t |-> "int", n |-> 10 * i, s |-> <<>>]
    /\ \A i \in Workers : thr_pc[i] # "done" => thr_read[i] = Absent
    /\ main_pc.at = "done" =>
          /\ main_read = [t |-> "int", n |-> 0, s |-> <<>>]
          /\ \A i \in Workers : thr_pc[i] = "done"

\* The last worker started has set its value while the first one still
\* sleeps, and the first one then reads.
C4_ReadAfterOthersSet ==
    /\ thr_pc[0] = "done"
    /\ thr_ctx[ContextOf(2)] = WorkerValue(2)
    /\ thr_ctx[ContextOf(1)] = WorkerValue(1)
    /\ thr_pc[1] = "sleeping"
    /\ thr_read[0] = WorkerValue(0)

(***************************************************************************)
(* SpecAsync: the three demos that hand coroutines to asyncio.gather       *)
(* (10_contextvars.py).  gather wraps each coroutine in a task; a task     *)
(* gets a copy of the context current at its creation; the event loop runs *)
(* one task at a time, a task keeps running until it awaits a sleep, and   *)
(* the loop may resume the tasks that are ready in any order.              *)
(***************************************************************************)

Tasks == 1 .. 3


\* Paths a request may come with: the demo's three and two more.
Paths ==
    {<<"/", "a", "p", "i", "/", "u", "s", "e", "r", "s">>,                          \* /api/users
     <<"/", "a", "d", "m", "i", "n", "/", "s", "e", "t", "t", "i", "n", "g", "s">>, \* /admin/settings
     <<"/", "a", "p", "i", "/", "p", "r", "o", "d", "u", "c", "t", "s">>,           \* /api/products
     <<"/", "a", "d", "m", "/", "i", "n">>,                                        \* /adm/in
     <<"/", "x", "a", "d", "m", "i", "n">>}                                        \* /xadmin

\* s[i..] starts with sub
RECURSIVE StartsWithAt(_, _, _, _)
StartsWithAt(sub, s, i, j) ==
    IF j > Len(sub) THEN TRUE
    ELSE IF i + j - 1 > Len(s) THEN FALSE
    ELSE IF s[i + j - 1] # sub[j] THEN FALSE
    ELSE StartsWithAt(sub, s, i, j + 1)

\* sub in s, for strings
RECURSIVE StrIn(_, _, _)
StrIn(sub, s, i) ==
    IF i > Len(s) + 1 THEN FALSE
    ELSE IF StartsWithAt(sub, s, i, 1) THEN TRUE
    ELSE StrIn(sub, s, i + 1)

\* f"task-{worker_id}"
TaskName(worker_id) ==
    CASE worker_id = 0 -> "task-0"
      [] worker_id = 1 -> "task-1"
      [] worker_id = 2 -> "task-2"

\* ContextVar.set in a context: a context maps the variables set in it.
CtxSet(ctx, var, value) ==
    [v \in DOMAIN ctx \cup {var} |-> IF v = var THEN value ELSE ctx[v]]

\* ContextVar.get in a context, with the variable's default
CtxGet(ctx, var, default) == IF var \in DOMAIN ctx THEN ctx[var] ELSE default

\* The defaults the context variables were created with.
VarDefault(var) ==
    CASE var = "task_id" -> "none"
      [] var = "request_id" -> "no-request"
      [] var = "user_id" -> "None"
      [] var = "auth_user" -> "None"
      [] OTHER -> "<LookupError>"

\* The arguments of the three coroutines of each demo.
AsyncArgs(demo) ==
    CASE demo = 4 -> {<<[worker_id |-> 0], [worker_id |-> 1], [worker_id |-> 2]>>}
      [] demo = 6 -> {<<[rid |-> "req-A", uid |-> "user-1"],
                        [rid |-> "req-B", uid |-> "user-2"],
                        [rid |-> "req-C", uid |-> "user-3"]>>}
      [] demo = 10 -> {<<[path |-> p1, method |-> "GET"],
                         [path |-> p2, method |-> "POST"],
                         [path |-> p3, method |-> "GET"]>> :
                            p1 \in Paths, p2 \in Paths, p3 \in Paths}

St(op, var, value) == [op |-> op, var |-> var, value |-> value]

\* authenticate_middleware(request)
Authenticate(path) ==
    IF StrIn(<<"a", "d", "m", "i", "n">>, path, 1) THEN "admin_user" ELSE "guest_user"

\* The body of each coroutine as the steps that touch the context or the
\* event loop; awaiting another coroutine runs it inside the same task.
Program(demo, arg) ==
    CASE demo = 4 ->            \* async_worker(worker_id)
            <<St("set", "task_id", TaskName(arg.worker_id)),
              St("log", <<"task_id">>, ""),
              St("sleep", "", ""),
              St("log", <<"task_id">>, ""),
              St("return", "task_id", "")>>
      [] demo = 6 ->            \* handle_request(rid, uid)
            <<St("set", "request_id", arg.rid),
              St("set", "user_id", arg.uid),
              St("log", <<"request_id", "user_id">>, ""),
              St("log", <<"request_id", "user_id">>, ""),
              St("sleep", "", ""),
              St("log", <<"request_id", "user_id">>, ""),
              St("log", <<"request_id", "user_id">>, ""),
              St("return", "", "")>>
      [] demo = 10 ->           \* handle_request(path, method)
            <<St("set", "request", arg),
              St("set", "auth_user", Authenticate(arg.path)),
              St("log", <<"request", "auth_user">>, ""),
              St("log", <<"request", "auth_user">>, ""),
              St("return", "", "")>>

\* The context asyncio.run gives the demo's own task: a copy of the main
\* context, in which demo_request_tracking has left request_id set.
ParentContext(demo) ==
    IF demo = 4 THEN <<>> ELSE [v \in {"request_id"} |-> "req-002"]

\* A mutant: all tasks use one context.
ContextSlotShared(i) == 1

\* The context a task runs in: its own copy.
ContextSlot(i) == i

AsyncInit ==
    /\ a_demo \in {4, 6, 10}
    /\ a_args \in AsyncArgs(a_demo)
    /\ task_pc = [i \in Tasks |-> 1]
    /\ task_ctx = [i \in Tasks |-> ParentContext(a_demo)]
    /\ running = 0
    /\ a_log = <<>>
    /\ a_results = [values |-> [i \in Tasks |-> "<pending>"], gathered |-> <<>>]
    /\ ImportIdle /\ RunIdle /\ DescIdle /\ ProxyIdle /\ SentIdle /\ TokIdle /\ ThrIdle /\ ExtIdle

Prog(i) == Program(a_demo, a_args[i])
Current == Prog(running)[task_pc[running]]
MyCtx(i) == task_ctx[ContextSlot(i)]
Advance == task_pc' = [task_pc EXCEPT ![running] = @ + 1]

\* The event loop resumes a task that is ready.
Resume(i) ==
    /\ running = 0
    /\ task_pc[i] <= Len(Prog(i))
    /\ running' = i
    /\ UNCHANGED <<a_demo, a_args, task_pc, task_ctx, a_log, a_results, notAsync>>

\* var.set(value)
StepSet ==
    /\ running # 0
    /\ Current.op = "set"
    /\ task_ctx' = [task_ctx EXCEPT ![ContextSlot(running)] =
                       CtxSet(@, Current.var, Current.value)]
    /\ Advance
    /\ UNCHANGED <<a_demo, a_args, running, a_log, a_results, notAsync>>

\* print(... var.get() ...)
StepLog ==
    /\ running # 0
    /\ Current.op = "log"
    /\ a_log' = Append(a_log,
          [task |-> running,
           read |-> [k \in DOMAIN Current.var |->
                        CtxGet(MyCtx(running), Current.var[k], VarDefault(Current.var[k]))]])
    /\ Advance
    /\ UNCHANGED <<a_demo, a_args, running, task_ctx, a_results, notAsync>>

\* await asyncio.sleep(...): the task yields to the event loop
StepSleep ==
    /\ running # 0
    /\ Current.op = "sleep"
    /\ Advance
    /\ running' = 0
    /\ UNCHANGED <<a_demo, a_args, task_ctx, a_log, a_results, notAsync>>

\* return [var.get()]: the task is done
StepReturn ==
    /\ running # 0
    /\ Current.op = "return"
    /\ a_results' = [a_results EXCEPT !.values[running] =
          IF Current.var = "" THEN "None"
          ELSE CtxGet(MyCtx(running), Current.var, VarDefault(Current.var))]
    /\ Advance
    /\ running' = 0
    /\ UNCHANGED <<a_demo, a_args, task_ctx, a_log, notAsync>>

\* results = await asyncio.gather(*tasks): the results in submission order
Gather ==
    /\ running = 0
    /\ \A i \in Tasks : task_pc[i] > Len(Prog(i))
    /\ a_results.gathered = <<>>
    /\ a_results' = [a_results EXCEPT !.gathered = [i \in Tasks |-> a_results.values[i]]]
    /\ UNCHANGED <<a_demo, a_args, task_pc, task_ctx, running, a_log, notAsync>>

AsyncNext ==
    \/ \E i \in Tasks : Resume(i)
    \/ StepSet
    \/ StepLog
    \/ StepSleep
    \/ StepReturn
    \/ Gather

SpecAsync == AsyncInit /\ [][AsyncNext]_vars

HasAdmin(path) ==
    \E k \in 1 .. Len(path) :
        /\ k + 4 <= Len(path)
        /\ SubSeq(path, k, k + 4) = <<"a", "d", "m", "i", "n">>

\* C5: every coroutine run by asyncio.gather keeps its own context-variable
\* values across every await, whatever the interleaving: a worker's task_id
\* after the sleep is the one it set and gather returns task-0, task-1,
\* task-2 in submission order; every log line of a request handler carries
\* the request_id and user_id this handler set; each web request is
\* processed with the user derived from its own path ('admin_user' exactly
\* when the path contains 'admin', otherwise 'guest_user').
C5_TasksKeepOwnContext ==
    /\ a_demo = 4 =>
          /\ \A k \in DOMAIN a_log :
                a_log[k].read = <<<<"task-0", "task-1", "task-2">>[a_log[k].task]>>
          /\ a_results.gathered \in {<<>>, <<"task-0", "task-1", "task-2">>}
    /\ a_demo = 6 =>
          \A k \in DOMAIN a_log :
             a_log[k].read = <<a_args[a_log[k].task].rid, a_args[a_log[k].task].uid>>
    /\ a_demo = 10 =>
          \A k \in DOMAIN a_log :
             /\ a_log[k].read[1] = a_args[a_log[k].task]
             /\ a_log[k].read[2] =
                   (IF HasAdmin(a_args[a_log[k].task].path)
                    THEN "admin_user" ELSE "guest_user")

\* Task 1 printed after its sleep although tasks 2 and 3 had set their
\* values in between, and gather has returned.
C5_LogAfterOthersSet ==
    /\ a_demo = 4
    /\ a_results.gathered # <<>>
    /\ Len(a_log) = 6
    /\ a_log[1].task = 1 /\ a_log[2].task = 3 /\ a_log[3].task = 2
    /\ a_log[6].task = 1

(***************************************************************************)
(* Spec: one of the ten scripts run as the main program.  A demo_* body is *)
(* the sequence of its statements that can raise or that touch state that  *)
(* outlives a call; a demo with none of them is one printing statement.    *)
(***************************************************************************)

ListV(items) == [t |-> "list", n |-> 0, s |-> items]

\* _sentinel = object() of demo_sentinel_pattern
AppendSentinel == Object(3)

\* append_to_list(item, lst=_sentinel) of demo_sentinel_pattern
AppendToList(args) ==
    LET given == Bind(args, "lst", AppendSentinel)
        lst == IF given = AppendSentinel THEN ListV(<<>>) ELSE given
    IN  IF lst.t # "list"
        THEN [exc |-> "AttributeError", value |-> Absent]   \* lst.append
        ELSE [exc |-> NoExc, value |-> ListV(Append(lst.s, args["item"]))]

\* APIEndpoint.__init_subclass__: the required attributes must be defined
InitSubclass(defined) ==
    IF {"path", "method", "handler"} \ defined # {} THEN "TypeError" ELSE NoExc

\* safe_operation(name, will_fail) of demo_exception_safety
SafeOperation(will_fail) == IF will_fail THEN "ValueError" ELSE NoExc

\* ContextVar.get() of a variable created without a default
VarGetNoDefault(ctx, var) == IF var \in DOMAIN ctx THEN NoExc ELSE "LookupError"

\* except <handlers>: an exception is caught by its own class or a base class
Caught(exc, handlers) ==
    \/ exc \in handlers
    \/ exc = "ModuleNotFoundError" /\ "ImportError" \in handlers

Stmt(kind, arg, exc, handlers) ==
    [kind |-> kind, arg |-> arg, exc |-> exc, handlers |-> handlers]
\* statements outside any try block
Do(exc) == Stmt("stmt", "", exc, {})
\* try: <statement> except <handlers>: print(...)
Try(exc, handlers) == Stmt("stmt", "", exc, handlers)
Import(name) == Stmt("import", name, NoExc, {})
TryImport(name, handlers) == Stmt("import", name, NoExc, handlers)
MetaInsert(finder) == Stmt("meta_insert", finder, NoExc, {})
MetaRemove(finder) == Stmt("meta_remove", finder, NoExc, {})
DelModule(name) == Stmt("del_module", name, NoExc, {})
GlobalAssign(name, value) == Stmt("global", <<name, value>>, NoExc, {})
ContextSet(var, value) == Stmt("ctx_set", <<var, value>>, NoExc, {})
ContextReset(token) == Stmt("ctx_reset", token, NoExc, {})
AtexitRegister(handler) == Stmt("atexit", handler, NoExc, {})
Plain == <<Do(NoExc)>>

NewUser == [a \in {"name", "age"} |-> Absent]
NewAccount == [a \in {"email", "balance"} |-> Absent]

\* if __name__ == "__main__": the demo_* calls in order
EntryPoint(s) ==
    CASE s = 1 -> <<"demo_basic_typed", "demo_lazy_property", "demo_validator",
                    "demo_comparison_with_property", "demo_descriptor_access_on_class">>
      [] s = 2 -> <<"demo_plugin_registry", "demo_validation_on_creation",
                    "demo_parameterized_subclass", "demo_method_wrapping",
                    "demo_inheritance_tree", "demo_vs_metaclass">>
      [] s = 3 -> <<"demo_basic_weakref", "demo_weak_value_dict", "demo_observer_pattern",
                    "demo_weak_key_dict", "demo_callback_management",
                    "demo_circular_reference">>
      [] s = 4 -> <<"demo_basic_evaluation_order", "demo_function_arguments",
                    "demo_boolean_short_circuit", "demo_chained_comparisons",
                    "demo_assignment_evaluation", "demo_list_comprehension_order",
                    "demo_dict_evaluation_order", "demo_exception_safety",
                    "demo_walrus_operator", "demo_side_effects", "demo_comparison_with_c">>
      [] s = 5 -> <<"demo_basic_frame_inspection", "demo_caller_info", "demo_call_stack",
                    "demo_local_variable_access", "demo_custom_debugger",
                    "demo_context_manager", "demo_performance_profiler",
                    "demo_variable_injection", "demo_inspect_comparison",
                    "demo_practical_logging">>
      [] s = 6 -> <<"demo_basic_import_blocker", "demo_import_logger",
                    "demo_dynamic_module_creation", "demo_import_deprecation",
                    "demo_import_redirect", "demo_lazy_import", "demo_namespace_packages",
                    "demo_import_profiler", "demo_security_sandbox",
                    "demo_meta_path_inspection">>
      [] s = 7 -> <<"demo_basic_finalize", "demo_vs_del", "demo_explicit_cleanup",
                    "demo_cleanup_with_args", "demo_check_alive", "demo_detach",
                    "demo_atexit_comparison", "demo_practical_file_handle",
                    "demo_practical_database", "demo_resurrection_safe">>
      [] s = 8 -> <<"demo_basic_usage", "demo_underlying_changes", "demo_vs_frozen",
                    "demo_config_system", "demo_class_namespace", "demo_api_response",
                    "demo_nested_protection", "demo_performance", "demo_iteration",
                    "demo_use_cases">>
      [] s = 9 -> <<"demo_mutable_default_trap", "demo_none_solution",
                    "demo_sentinel_pattern", "demo_distinguishing_none",
                    "demo_multiple_sentinels", "demo_sentinel_class",
                    "demo_cpython_sentinels", "demo_dataclass_field",
                    "demo_sentinel_vs_none_performance", "demo_practical_api">>
      [] s = 10 -> <<"demo_basic_usage", "demo_vs_global", "demo_threading_isolation",
                     "demo_async_isolation", "demo_request_tracking",
                     "demo_async_request_tracking", "demo_context_copying",
                     "demo_default_values", "demo_token_reset", "demo_practical_web_app">>


Body01(name) ==
    CASE name = "demo_basic_typed" ->
            <<Do(TypedSet(NewUser, "name", StrV(S_Alice)).exc),
              Do(TypedSet(NewUser, "age", IntV(30)).exc),
              Do(TypedSet(NewUser, "age", IntV(31)).exc),
              Try(TypedSet(NewUser, "age", StrV(S_thirty_one)).exc, {"TypeError"}),
              Try(TypedSet(NewUser, "name", IntV(12345)).exc, {"TypeError"})>>
      [] name = "demo_validator" ->
            <<Do(ValidatorSet(NewAccount, "email", StrV(S_user_at_example)).exc),
              Do(ValidatorSet(NewAccount, "balance", IntV(1000)).exc),
              Do(ValidatorSet(NewAccount, "balance", IntV(500)).exc),
              Try(ValidatorSet(NewAccount, "balance", IntV(0 - 100)).exc, {"ValueError"}),
              Try(ValidatorSet(NewAccount, "email", StrV(S_invalid_email)).exc,
                  {"ValueError"})>>
      [] name = "demo_comparison_with_property" ->
            <<Do(TypedSet(NewUser, "name", StrV(S_Alice)).exc),
              Do(TypedSet(NewUser, "age", IntV(25)).exc)>>
      [] OTHER -> Plain

Body02(name) ==
    CASE name = "demo_validation_on_creation" ->
            <<Do(InitSubclass({"path", "method", "handler"})),
              Try(InitSubclass({"path"}), {"TypeError"})>>
      [] OTHER -> Plain

Body04(name) ==
    CASE name = "demo_exception_safety" ->
            <<Try(SafeOperation(FALSE), {"ValueError"}),
              Try(SafeOperation(TRUE), {"ValueError"})>>
      [] OTHER -> Plain

Body06(name) ==
    CASE name = "demo_basic_import_blocker" ->
            <<MetaInsert("ImportBlocker"),
              TryImport("sys", {"ImportError"}),
              TryImport("json", {"ImportError"}),
              TryImport("os", {"ImportError"}),
              MetaRemove("ImportBlocker")>>
      [] name = "demo_import_logger" ->
            <<MetaInsert("ImportLogger"), Import("datetime"), Import("collections"),
              MetaRemove("ImportLogger")>>
      [] name = "demo_dynamic_module_creation" ->
            <<MetaInsert("DynamicModuleFinder"),
              Import("dynamic_test_module"), Import("dynamic_another_module"),
              MetaRemove("DynamicModuleFinder"),
              DelModule("dynamic_test_module"), DelModule("dynamic_another_module")>>
      [] name = "demo_import_deprecation" ->
            <<MetaInsert("DeprecationChecker"), MetaRemove("DeprecationChecker")>>
      [] name = "demo_import_redirect" ->
            <<MetaInsert("ImportRedirector"), Import("mymath"),
              MetaRemove("ImportRedirector"), DelModule("mymath")>>
      [] name = "demo_lazy_import" -> <<Import("math"), Import("random")>>
      [] name = "demo_import_profiler" ->
            <<MetaInsert("ImportProfiler"), Import("hashlib"), Import("pathlib"),
              MetaRemove("ImportProfiler")>>
      [] OTHER -> Plain

Body07(name) ==
    CASE name = "demo_atexit_comparison" -> <<AtexitRegister("exit_cleanup"), Do(NoExc)>>
      [] OTHER -> Plain

Body08(name) ==
    CASE name = "demo_basic_usage" ->
            <<Try(ProxySetItem(InitialConfig, "debug", BoolV(TRUE)).exc, {"TypeError"}),
              Try(ProxySetItem(InitialConfig, "new_key", IntV(30)).exc, {"TypeError"}),
              Try(ProxyDelItem(InitialConfig, "timeout").exc, {"TypeError"})>>
      [] name \in {"demo_vs_frozen", "demo_config_system", "demo_class_namespace",
                   "demo_api_response", "demo_nested_protection"} ->
            <<Try(ProxySetItem(InitialConfig, "new_key", IntV(30)).exc, {"TypeError"})>>
      [] OTHER -> Plain

Body09(name) ==
    CASE name = "demo_sentinel_pattern" ->
            <<Do(AppendToList([item |-> 1]).exc),
              Do(AppendToList([item |-> 2, lst |-> NoneV]).exc),
              Do(AppendToList([item |-> 30, lst |-> ListV(<<10, 20>>)]).exc)>>
      [] OTHER -> Plain

Body10(name) ==
    CASE name = "demo_basic_usage" ->
            <<ContextSet("demo_basic_usage.counter", "42"),
              ContextSet("demo_basic_usage.counter", "100")>>
      [] name = "demo_vs_global" ->
            \* modify_values(): `global global_value` names the module's
            \* global, not the local of demo_vs_global
            <<GlobalAssign("global_value", "modified"),
              ContextSet("demo_vs_global.context_value", "modified")>>
      [] name = "demo_request_tracking" ->
            <<ContextSet("request_id", "req-001"), ContextSet("request_id", "req-002")>>
      [] name = "demo_context_copying" ->
            \* the second set runs inside ctx.run, on the copy
            <<ContextSet("demo_context_copying.config", "debug=True,timeout=30"),
              Do(NoExc)>>
      [] name = "demo_default_values" ->
            <<Try(VarGetNoDefault(<<>>, "without_default"), {"LookupError"})>>
      [] name = "demo_token_reset" ->
            <<ContextSet("demo_token_reset.counter", "10"),
              ContextSet("demo_token_reset.counter", "20"),
              ContextReset(1)>>
      [] OTHER -> Plain

\* The statements of demo `name` of script s.
Body(s, name) ==
    CASE s = 1 -> Body01(name)
      [] s = 2 -> Body02(name)
      [] s = 4 -> Body04(name)
      [] s = 6 -> Body06(name)
      [] s = 7 -> Body07(name)
      [] s = 8 -> Body08(name)
      [] s = 9 -> Body09(name)
      [] s = 10 -> Body10(name)
      [] OTHER -> Plain

\* The running demo and its statements.
DemoName == EntryPoint(script)[demoIdx]
DemoBody == Body(script, DemoName)
InDemo == stmtIdx > 0 /\ stmtIdx <= Len(DemoBody)
Statement == DemoBody[stmtIdx]

\* The exception the statement raises, from the state it runs in.
StmtExc(st) ==
    IF st.kind = "import" THEN ImportModule(st.arg, sys_modules, meta_path).exc
    ELSE st.exc

\* The exception leaves the statement's try block, if any.
Uncaught(st) == StmtExc(st) # NoExc /\ ~Caught(StmtExc(st), st.handlers)

\* A context as the set of <<variable, value>> of the variables set in it.
MainCtxSet(ctx, var, value) == {p \in ctx : p[1] # var} \cup {<<var, value>>}
MainCtxDel(ctx, var) == {p \in ctx : p[1] # var}
MainCtxOld(ctx, var) ==
    IF \E p \in ctx : p[1] = var THEN (CHOOSE p \in ctx : p[1] = var)[2] ELSE "<MISSING>"

\* The state a demo could leave behind.
Snap ==
    [module_globals |-> module_globals,
     ctx |-> main_ctx.vars,
     meta_path |-> meta_path,
     exit_handlers |-> exit_handlers]

Init ==
    /\ script \in 1 .. 10
    /\ demoIdx = 1
    /\ stmtIdx = 0
    /\ called = <<>>
    /\ banner = FALSE
    /\ propagated = NoExc
    /\ module_globals = {}
    /\ main_ctx = [vars |-> {}, tokens |-> <<>>]
    /\ exit_handlers = <<>>
    /\ sys_modules \in StartupChoices
    /\ meta_path = DefaultMetaPath
    /\ last_import = NoImport
    /\ snapshot = [module_globals |-> {}, ctx |-> {}, meta_path |-> DefaultMetaPath,
                   exit_handlers |-> <<>>]
    /\ DescIdle /\ ProxyIdle /\ SentIdle /\ TokIdle /\ ThrIdle /\ AsyncIdle /\ ExtIdle

Running == propagated = NoExc /\ ~banner

\* the entry point calls the next demo_* function
CallDemo ==
    /\ Running
    /\ stmtIdx = 0
    /\ demoIdx <= Len(EntryPoint(script))
    /\ called' = Append(called, DemoName)
    /\ stmtIdx' = 1
    /\ snapshot' = Snap
    /\ UNCHANGED <<script, demoIdx, banner, propagated, module_globals, main_ctx,
                   exit_handlers, importVars, notRun>>

Step == stmtIdx' = stmtIdx + 1

\* a statement that raises nothing, or whose exception its except clause
\* catches and prints
ExecStatement ==
    /\ Running /\ InDemo
    /\ Statement.kind = "stmt"
    /\ ~Uncaught(Statement)
    /\ Step
    /\ UNCHANGED <<script, demoIdx, called, banner, propagated, module_globals,
                   main_ctx, exit_handlers, snapshot, importVars, notRun>>

\* import <name>, inside a try block or not
ExecImport ==
    /\ Running /\ InDemo
    /\ Statement.kind = "import"
    /\ ~Uncaught(Statement)
    /\ LET r == ImportModule(Statement.arg, sys_modules, meta_path)
       IN  /\ sys_modules' = r.modules
           /\ last_import' = [name |-> Statement.arg, exc |-> r.exc,
                              blocker |-> BlockerInstalled(meta_path)]
    /\ Step
    /\ UNCHANGED <<script, demoIdx, called, banner, propagated, module_globals,
                   main_ctx, exit_handlers, snapshot, meta_path, notRun>>

\* an exception no except clause of the demo catches: it leaves the demo
\* and the entry point, the interpreter prints the traceback and exits
PropagateException ==
    /\ Running /\ InDemo
    /\ Statement.kind \in {"stmt", "import"}
    /\ Uncaught(Statement)
    /\ propagated' = StmtExc(Statement)
    /\ UNCHANGED <<script, demoIdx, stmtIdx, called, banner, module_globals, main_ctx,
                   exit_handlers, snapshot, importVars, notRun>>

\* A mutant of sys.meta_path.remove(finder): the finder stays.
MetaPathRemoveForgotten(path, finder) == path

\* sys.meta_path.remove(finder)
MetaPathRemove(path, finder) == ListRemove(path, finder)

\* sys.meta_path.insert(0, finder)
ExecMetaInsert ==
    /\ Running /\ InDemo
    /\ Statement.kind = "meta_insert"
    /\ meta_path' = InsertFront(meta_path, Statement.arg)
    /\ Step
    /\ UNCHANGED <<script, demoIdx, called, banner, propagated, module_globals,
                   main_ctx, exit_handlers, snapshot, sys_modules, last_import, notRun>>

\* sys.meta_path.remove(finder)
ExecMetaRemove ==
    /\ Running /\ InDemo
    /\ Statement.kind = "meta_remove"
    /\ meta_path' = MetaPathRemove(meta_path, Statement.arg)
    /\ Step
    /\ UNCHANGED <<script, demoIdx, called, banner, propagated, module_globals,
                   main_ctx, exit_handlers, snapshot, sys_modules, last_import, notRun>>

\* if name in sys.modules: del sys.modules[name]
ExecDelModule ==
    /\ Running /\ InDemo
    /\ Statement.kind = "del_module"
    /\ sys_modules' = sys_modules \ {Statement.arg}
    /\ Step
    /\ UNCHANGED <<script, demoIdx, called, banner, propagated, module_globals,
                   main_ctx, exit_handlers, snapshot, meta_path, last_import, notRun>>

\* global <name>; <name> = value
ExecGlobalAssign ==
    /\ Running /\ InDemo
    /\ Statement.kind = "global"
    /\ module_globals' = MainCtxSet(module_globals, Statement.arg[1], Statement.arg[2])
    /\ Step
    /\ UNCHANGED <<script, demoIdx, called, banner, propagated, main_ctx,
                   exit_handlers, snapshot, importVars, notRun>>

\* token = var.set(value), in the main context
ExecContextSet ==
    /\ Running /\ InDemo
    /\ Statement.kind = "ctx_set"
    /\ main_ctx' =
          [vars |-> MainCtxSet(main_ctx.vars, Statement.arg[1], Statement.arg[2]),
           tokens |-> Append(main_ctx.tokens,
                             [var |-> Statement.arg[1],
                              old_value |-> MainCtxOld(main_ctx.vars, Statement.arg[1])])]
    /\ Step
    /\ UNCHANGED <<script, demoIdx, called, banner, propagated, module_globals,
                   exit_handlers, snapshot, importVars, notRun>>

\* var.reset(token), in the main context
ExecContextReset ==
    /\ Running /\ InDemo
    /\ Statement.kind = "ctx_reset"
    /\ LET token == main_ctx.tokens[Statement.arg]
       IN  main_ctx' = [main_ctx EXCEPT !.vars =
               IF token.old_value = "<MISSING>" THEN MainCtxDel(@, token.var)
               ELSE MainCtxSet(@, token.var, token.old_value)]
    /\ Step
    /\ UNCHANGED <<script, demoIdx, called, banner, propagated, module_globals,
                   exit_handlers, snapshot, importVars, notRun>>

\* atexit.register(handler)
ExecAtexitRegister ==
    /\ Running /\ InDemo
    /\ Statement.kind = "atexit"
    /\ exit_handlers' = Append(exit_handlers, Statement.arg)
    /\ Step
    /\ UNCHANGED <<script, demoIdx, called, banner, propagated, module_globals,
                   main_ctx, snapshot, importVars, notRun>>

\* the demo returns to the entry point; its locals (tokens) are gone
ReturnDemo ==
    /\ Running
    /\ stmtIdx > 0
    /\ stmtIdx = Len(DemoBody) + 1
    /\ stmtIdx' = 0
    /\ demoIdx' = demoIdx + 1
    /\ main_ctx' = [main_ctx EXCEPT !.tokens = <<>>]
    /\ UNCHANGED <<script, called, banner, propagated, module_globals,
                   exit_handlers, snapshot, importVars, notRun>>

\* print("All ... demos completed!")
PrintBanner ==
    /\ Running
    /\ stmtIdx = 0
    /\ demoIdx = Len(EntryPoint(script)) + 1
    /\ banner' = TRUE
    /\ UNCHANGED <<script, demoIdx, stmtIdx, called, propagated, module_globals,
                   main_ctx, exit_handlers, snapshot, importVars, notRun>>

Next ==
    \/ CallDemo
    \/ ExecStatement
    \/ ExecImport
    \/ PropagateException
    \/ ExecMetaInsert
    \/ ExecMetaRemove
    \/ ExecDelModule
    \/ ExecGlobalAssign
    \/ ExecContextSet
    \/ ExecContextReset
    \/ ExecAtexitRegister
    \/ ReturnDemo
    \/ PrintBanner

Spec == Init /\ [][Next]_vars

\* The process has ended: the banner is out or the traceback is.
Terminated == banner \/ propagated # NoExc

\* C1: running any of the ten scripts calls every demo_* function of its
\* entry point once, in the listed order, and then prints the closing
\* banner; no demo stops the run before the banner (09_late_bound_defaults
\* gets past demo_sentinel_pattern to the seven demos after it).
C1_AllDemosThenBanner ==
    /\ Len(called) <= Len(EntryPoint(script))
    /\ called = SubSeq(EntryPoint(script), 1, Len(called))
    /\ Terminated => (banner /\ called = EntryPoint(script))

\* A script that called all its demos and printed its banner.
C1_BannerPrinted ==
    /\ script = 10
    /\ banner
    /\ Len(called) = 10
    /\ called[10] = "demo_practical_web_app"

\* C2: every exception raised while a demo_* function runs is caught inside
\* that demo function and printed, so no demo_* call propagates an exception
\* to the entry point.
C2_EveryExceptionCaught ==
    /\ (Running /\ InDemo /\ Statement.kind \in {"stmt", "import"}
          /\ StmtExc(Statement) # NoExc)
          => Caught(StmtExc(Statement), Statement.handlers)
    /\ propagated = NoExc

\* A provoked exception that its demo catches.
C2_ProvokedAndCaught ==
    /\ script = 1
    /\ InDemo
    /\ StmtExc(Statement) = "TypeError"
    /\ Caught(StmtExc(Statement), Statement.handlers)

\* The demo has run its last statement and is about to return.
AtReturn == Running /\ stmtIdx > 0 /\ stmtIdx = Len(DemoBody) + 1

OldIdle ==
    /\ ImportIdle /\ RunIdle /\ DescIdle /\ ProxyIdle
    /\ SentIdle /\ TokIdle /\ ThrIdle /\ AsyncIdle

\* String literals the two assignments may carry; the demo's are the first two.
ScopeValues == {"initial", "modified", "other"}
DemoLiterals == [initial |-> "initial", modified |-> "modified"]

\* The scope the compiler gives a name in a function body.
NameScope(fn, name) ==
    CASE fn = "modify_values" /\ name = "global_value" -> "global"    \* global statement
      [] fn = "modify_values" -> "free"                               \* closure variable
      [] OTHER -> "local"                                             \* assigned in the body

\* The value bound to name, or "<MISSING>".
Lookup(bindings, name) ==
    IF \E p \in bindings : p[1] = name
    THEN (CHOOSE p \in bindings : p[1] = name)[2]
    ELSE "<MISSING>"

\* name = value executed in function fn; a closure body has no locals of
\* its own here, its free names live in the frame of demo_vs_global
StoreName(fn, name, value, locals, module) ==
    IF NameScope(fn, name) = "global"
    THEN [locals |-> locals, module |-> MainCtxSet(module, name, value)]
    ELSE [locals |-> MainCtxSet(locals, name, value), module |-> module]

\* the value of name read in function fn
LoadName(fn, name, locals, module) ==
    IF NameScope(fn, name) = "global" THEN Lookup(module, name)
    ELSE Lookup(locals, name)

\* context_value.get(), default "initial"
ContextValueGet == IF vg_ctx = "<MISSING>" THEN vg_args.initial ELSE vg_ctx

\* the two f-strings of a print pair
PrintedPair ==
    [global_value |-> LoadName("demo_vs_global", "global_value", vg_locals, vg_module),
     context_value |-> ContextValueGet]

ScopeInit ==
    /\ vg_pc = "idle"
    /\ vg_args = DemoLiterals
    /\ vg_locals = {}
    /\ vg_module = {}
    /\ vg_ctx = "<MISSING>"
    /\ vg_out = <<>>
    /\ OldIdle /\ LazyIdle /\ EmitIdle /\ PoolIdle /\ FinIdle

\* demo_vs_global() is called: a new frame
VgCall ==
    /\ vg_pc = "idle"
    /\ \E v0 \in ScopeValues, v1 \in ScopeValues :
          vg_args' = [initial |-> v0, modified |-> v1]
    /\ vg_locals' = {}
    /\ vg_out' = <<>>
    /\ vg_pc' = "called"
    /\ UNCHANGED <<vg_module, vg_ctx, notScope>>

\* global_value = "initial"; context_value = ContextVar(..., default="initial")
VgAssign ==
    /\ vg_pc = "called"
    /\ LET r == StoreName("demo_vs_global", "global_value", vg_args.initial,
                          vg_locals, vg_module)
       IN  vg_locals' = r.locals /\ vg_module' = r.module
    /\ vg_ctx' = "<MISSING>"
    /\ vg_pc' = "assigned"
    /\ UNCHANGED <<vg_args, vg_out, notScope>>

\* the two prints under "Before modification:"
VgPrintBefore ==
    /\ vg_pc = "assigned"
    /\ vg_out' = Append(vg_out, PrintedPair)
    /\ vg_pc' = "printed_before"
    /\ UNCHANGED <<vg_args, vg_locals, vg_module, vg_ctx, notScope>>

\* modify_values()
VgModifyValues ==
    /\ vg_pc = "printed_before"
    /\ LET r == StoreName("modify_values", "global_value", vg_args.modified,
                          vg_locals, vg_module)
       IN  vg_locals' = r.locals /\ vg_module' = r.module
    /\ vg_ctx' = vg_args.modified
    /\ vg_pc' = "modified"
    /\ UNCHANGED <<vg_args, vg_out, notScope>>

\* the two prints under "After modification:"
VgPrintAfter ==
    /\ vg_pc = "modified"
    /\ vg_out' = Append(vg_out, PrintedPair)
    /\ vg_pc' = "printed_after"
    /\ UNCHANGED <<vg_args, vg_locals, vg_module, vg_ctx, notScope>>

\* the demo returns; its frame and its ContextVar object are gone
VgReturn ==
    /\ vg_pc = "printed_after"
    /\ vg_pc' = "idle"
    /\ vg_locals' = {}
    /\ UNCHANGED <<vg_args, vg_module, vg_ctx, vg_out, notScope>>

ScopeNext ==
    \/ VgCall
    \/ VgAssign
    \/ VgPrintBefore
    \/ VgModifyValues
    \/ VgPrintAfter
    \/ VgReturn

SpecScope == ScopeInit /\ [][ScopeNext]_vars

\* C11: in demo_vs_global, after modify_values() has run, both values the
\* demo prints have changed: global_value reads 'modified' and
\* context_value.get() returns 'modified'.
C11_BothModified ==
    (vg_pc = "printed_after" /\ vg_args = DemoLiterals) =>
        /\ vg_out[2].global_value = "modified"
        /\ vg_out[2].context_value = "modified"

\* The demo, with its own literals, has printed its second pair of values.
C11_SecondPairPrinted ==
    /\ vg_pc = "printed_after"
    /\ vg_args = DemoLiterals
    /\ vg_out[1] = [global_value |-> "initial", context_value |-> "initial"]
    /\ vg_out[2].context_value = "modified"

(***************************************************************************)
(* LazyProperty (01_descriptor_protocol.py): a descriptor with __get__     *)
(* only, which stores the computed value in the instance __dict__ under    *)
(* the attribute's own name.                                               *)
(***************************************************************************)
MaxProcessors == 2
MaxReads == 3
Processors == 1 .. MaxProcessors

\* Lists a DataProcessor may be made with; the demo's is the last.
ProcessorData == {<<>>, <<1, 2>>, <<1, 2, 3, 4, 5>>}

\* sum(x ** 2 for x in self.data)
RECURSIVE SumSquares(_)
SumSquares(xs) == IF xs = <<>> THEN 0 ELSE Head(xs) * Head(xs) + SumSquares(Tail(xs))

\* DataProcessor.expensive_result(self): counts the call, returns the sum
ExpensiveResult(inst) ==
    [inst |-> [inst EXCEPT !.count = @ + 1], value |-> IntV(SumSquares(inst.data))]

\* A __get__ that returns the computed value without storing it.
LazyPropertyGetNoStore(inst) ==
    LET r == ExpensiveResult(inst)
    IN  [inst |-> r.inst, value |-> r.value, computed |-> TRUE]

\* LazyProperty.__get__(self, instance, owner), instance not None
LazyPropertyGet(inst) ==
    IF inst.cached = Absent                     \* self.name not in instance.__dict__
    THEN LET r == ExpensiveResult(inst)
         IN  [inst |-> [r.inst EXCEPT !.cached = r.value], value |-> r.value,
              computed |-> TRUE]
    ELSE [inst |-> inst, value |-> inst.cached, computed |-> FALSE]

\* processor.expensive_result: the instance __dict__ is searched before a
\* descriptor that has no __set__; the descriptor's __get__ runs otherwise
GetAttribute(inst) ==
    IF inst.cached # Absent
    THEN [inst |-> inst, value |-> inst.cached, computed |-> FALSE]
    ELSE LazyPropertyGet(inst)

Unmade == [made |-> FALSE, data |-> <<>>, cached |-> Absent, count |-> 0, reads |-> 0]

LazyInit ==
    /\ lz_inst = [i \in Processors |-> Unmade]
    /\ lz_last = [inst |-> 0, value |-> Absent, computed |-> FALSE]
    /\ OldIdle /\ ScopeIdle /\ EmitIdle /\ PoolIdle /\ FinIdle

\* processor = DataProcessor(data)
NewProcessor(i) ==
    /\ ~lz_inst[i].made
    /\ \E d \in ProcessorData :
          lz_inst' = [lz_inst EXCEPT ![i] = [Unmade EXCEPT !.made = TRUE, !.data = d]]
    /\ UNCHANGED <<lz_last, notLazy>>

\* result = processor.expensive_result
ReadExpensiveResult(i) ==
    /\ lz_inst[i].made
    /\ lz_inst[i].reads < MaxReads
    /\ LET r == GetAttribute(lz_inst[i])
       IN  /\ lz_inst' = [lz_inst EXCEPT ![i] = [r.inst EXCEPT !.reads = @ + 1]]
           /\ lz_last' = [inst |-> i, value |-> r.value, computed |-> r.computed]
    /\ UNCHANGED notLazy

\* DataProcessor.expensive_result: __get__ with instance None returns the
\* descriptor itself
ReadOnClass ==
    /\ lz_last' = [inst |-> 0, value |-> Object(0), computed |-> FALSE]
    /\ UNCHANGED <<lz_inst, notLazy>>

LazyNext ==
    \/ \E i \in Processors : NewProcessor(i)
    \/ \E i \in Processors : ReadExpensiveResult(i)
    \/ ReadOnClass

SpecLazy == LazyInit /\ [][LazyNext]_vars

\* C12: for every instance, the function wrapped by LazyProperty runs at
\* most once however often the attribute is read: the first read computes
\* the value and stores it in the instance, every later read returns that
\* stored value without calling the function (computation_count stays 1).
C12_ComputedAtMostOnce ==
    /\ \A i \in Processors :
          LET p == lz_inst[i]
          IN  /\ p.count <= 1
              /\ p.reads = 0 => (p.count = 0 /\ p.cached = Absent)
              /\ p.reads >= 1 => (p.count = 1 /\ p.cached = IntV(SumSquares(p.data)))
    /\ lz_last.inst \in Processors =>
          /\ lz_last.value = lz_inst[lz_last.inst].cached
          /\ lz_last.computed = (lz_inst[lz_last.inst].reads = 1)

\* The demo's processor has been read three times, the last read from the
\* stored value, while another instance has not been read yet.
C12_ThirdReadFromCache ==
    /\ lz_inst[1].data = <<1, 2, 3, 4, 5>>
    /\ lz_inst[1].reads = 3
    /\ lz_last = [inst |-> 1, value |-> IntV(55), computed |-> FALSE]
    /\ lz_inst[2].made /\ lz_inst[2].reads = 0

(***************************************************************************)
(* EventEmitter (03_weak_references.py): listeners are kept as             *)
(* weakref.WeakMethod objects; emit calls the ones whose observer is still *)
(* alive and drops the others.  An observer whose last name was deleted is *)
(* "unreferenced" until the interpreter collects it (at once under         *)
(* reference counting, at gc.collect() at the latest).                     *)
(***************************************************************************)
MaxObservers == 3
MaxListeners == 3
Observers == 1 .. MaxObservers

\* A reference that keeps answering with its object.
WeakMethodCallStrong(o, state) == o

\* weak_listener(): the bound method, or None (0) once the observer is collected
WeakMethodCall(o, state) == IF state[o] = "collected" THEN 0 ELSE o

\* The for loop of emit from position i on: the listeners called so far and
\* the weak references kept.
RECURSIVE EmitLoop(_, _, _, _, _)
EmitLoop(listeners, state, i, calls, alive_listeners) ==
    IF i > Len(listeners) THEN [called |-> calls, alive_listeners |-> alive_listeners]
    ELSE LET listener == WeakMethodCall(listeners[i], state)
         IN  IF listener # 0
             THEN EmitLoop(listeners, state, i + 1, Append(calls, listener),
                           Append(alive_listeners, listeners[i]))
             ELSE EmitLoop(listeners, state, i + 1, calls, alive_listeners)

NoEmit == [done |-> FALSE, before |-> <<>>, called |-> <<>>, count |-> 0]

EmitInit ==
    /\ ob_state = [o \in Observers |-> "none"]
    /\ em_listeners = <<>>
    /\ em_last = NoEmit
    /\ OldIdle /\ ScopeIdle /\ LazyIdle /\ PoolIdle /\ FinIdle

\* obs = Observer(name)
CreateObserver(o) ==
    /\ ob_state[o] = "none"
    /\ ob_state' = [ob_state EXCEPT ![o] = "alive"]
    /\ em_last' = NoEmit
    /\ UNCHANGED <<em_listeners, notEmit>>

\* emitter.add_listener(obs.on_event)
AddListener(o) ==
    /\ ob_state[o] = "alive"
    /\ Len(em_listeners) < MaxListeners
    /\ em_listeners' = Append(em_listeners, o)
    /\ em_last' = NoEmit
    /\ UNCHANGED <<ob_state, notEmit>>

\* del obs
DelObserver(o) ==
    /\ ob_state[o] = "alive"
    /\ ob_state' = [ob_state EXCEPT ![o] = "unreferenced"]
    /\ em_last' = NoEmit
    /\ UNCHANGED <<em_listeners, notEmit>>

\* the interpreter frees an unreferenced observer (Observer.__del__ runs)
CollectObserver(o) ==
    /\ ob_state[o] = "unreferenced"
    /\ ob_state' = [ob_state EXCEPT ![o] = "collected"]
    /\ em_last' = NoEmit
    /\ UNCHANGED <<em_listeners, notEmit>>

\* emitter.emit(event)
Emit ==
    LET r == EmitLoop(em_listeners, ob_state, 1, <<>>, <<>>)
    IN  /\ em_listeners' = r.alive_listeners
        /\ em_last' = [done |-> TRUE, before |-> em_listeners, called |-> r.called,
                       count |-> Len(r.alive_listeners)]
        /\ UNCHANGED <<ob_state, notEmit>>

EmitNext ==
    \/ \E o \in Observers : CreateObserver(o)
    \/ \E o \in Observers : AddListener(o)
    \/ \E o \in Observers : DelObserver(o)
    \/ \E o \in Observers : CollectObserver(o)
    \/ Emit

SpecEmit == EmitInit /\ [][EmitNext]_vars

\* Observers not collected.
LiveObservers == {o \in Observers : ob_state[o] \in {"alive", "unreferenced"}}

\* How many times x occurs in sequence s.
Occurrences(s, x) == Cardinality({k \in DOMAIN s : s[k] = x})

\* C13 (as stated): for any sequence of add_listener calls, observer
\* deletions and emit calls, emit calls the listener of every still-alive
\* registered observer exactly once, never that of a collected observer,
\* keeps exactly the listeners of the observers alive at that emit, and the
\* printed 'Active listeners' count is the number of live registered
\* observers.
C13_EachLiveObserverCalledOnce ==
    em_last.done =>
        LET registered == {em_last.before[k] : k \in DOMAIN em_last.before}
        IN  /\ \A o \in registered \cap LiveObservers :
                  Occurrences(em_last.called, o) = 1
            /\ \A o \in Observers \ LiveObservers : Occurrences(em_last.called, o) = 0
            /\ em_last.count = Cardinality(registered \cap LiveObservers)

\* C13 (amended): emit calls, in registration order, the listener of every
\* registration whose observer is still alive, once per registration (an
\* observer registered twice is called twice), never the listener of a
\* collected observer; _listeners then holds exactly those registrations
\* and the printed count is their number, which is the number of live
\* registered observers when no observer is registered twice.
C13_EachLiveRegistrationCalledOnce ==
    em_last.done =>
        LET live == SelectSeq(em_last.before, LAMBDA o : o \in LiveObservers)
            registered == {em_last.before[k] : k \in DOMAIN em_last.before}
        IN  /\ em_last.called = live
            /\ em_listeners = live
            /\ em_last.count = Len(live)
            /\ (\A o \in registered : Occurrences(em_last.before, o) = 1)
                  => em_last.count = Cardinality(registered \cap LiveObservers)

\* The demo's second emit: three observers registered, the second one
\* collected, two listeners called and kept.
C13_EmitAfterCollection ==
    /\ em_last.done
    /\ em_last.before = <<1, 2, 3>>
    /\ ob_state = <<"alive", "collected", "alive">>
    /\ em_last.called = <<1, 3>>
    /\ em_last.count = 2

(***************************************************************************)
(* ConnectionPool (07_weakref_finalize.py): create_connection counts the   *)
(* connection and registers weakref.finalize(conn, _return_connection,     *)
(* conn_id); the finalizer object is not kept, so the callback runs when   *)
(* the connection is collected.                                            *)
(***************************************************************************)
MaxConnections == 3
Databases == {"users_db", "products_db", "orders_db"}

\* A callback that reports the return without counting it.
ReturnConnectionUncounted(p, conn_id) == p

\* ConnectionPool._return_connection(conn_id)
ReturnConnection(p, conn_id) == [p EXCEPT !.active_connections = @ - 1]

PoolInit ==
    /\ pool = [active_connections |-> 0, total_created |-> 0]
    /\ conns = <<>>
    /\ returned = <<>>
    /\ OldIdle /\ ScopeIdle /\ LazyIdle /\ EmitIdle /\ FinIdle

\* conn = pool.create_connection(database)
CreateConnection ==
    /\ Len(conns) < MaxConnections
    /\ \E database \in Databases :
          LET counted == [active_connections |-> pool.active_connections + 1,
                          total_created |-> pool.total_created + 1]
              conn_id == counted.total_created
          IN  /\ pool' = counted
              /\ conns' = Append(conns, [id |-> conn_id, database |-> database,
                                         state |-> "alive"])
    /\ UNCHANGED <<returned, notPool>>

\* del conn
DelConnection ==
    /\ \E k \in DOMAIN conns :
          /\ conns[k].state = "alive"
          /\ conns' = [conns EXCEPT ![k].state = "unreferenced"]
    /\ UNCHANGED <<pool, returned, notPool>>

\* the interpreter frees an unreferenced connection: its finalizer calls
\* self._return_connection(conn_id)
CollectConnection ==
    /\ \E k \in DOMAIN conns :
          /\ conns[k].state = "unreferenced"
          /\ conns' = [conns EXCEPT ![k].state = "collected"]
          /\ pool' = ReturnConnection(pool, conns[k].id)
          /\ returned' = Append(returned, conns[k].id)
    /\ UNCHANGED notPool

PoolNext ==
    \/ CreateConnection
    \/ DelConnection
    \/ CollectConnection

SpecPool == PoolInit /\ [][PoolNext]_vars

\* The connections already collected.
CollectedIds == {conns[k].id : k \in {j \in DOMAIN conns : conns[j].state = "collected"}}

\* C14: after any sequence of create_connection calls and connection
\* collections, active_connections is the number of created connections
\* not yet collected, so 0 <= active_connections <= total_created;
\* total_created counts the connections ever created, their ids are
\* 1..total_created without repeats, each connection is returned to the
\* pool exactly once, and once every connection has been collected
\* active_connections is 0.
C14_ActiveCountsLiveConnections ==
    /\ pool.total_created = Len(conns)
    /\ \A k \in DOMAIN conns : conns[k].id = k
    /\ pool.active_connections = Len(conns) - Cardinality(CollectedIds)
    /\ 0 <= pool.active_connections /\ pool.active_connections <= pool.total_created
    /\ pool.active_connections = pool.total_created - Len(returned)
    /\ \A i, j \in DOMAIN returned : returned[i] = returned[j] => i = j
    /\ {returned[i] : i \in DOMAIN returned} = CollectedIds
    /\ (\A k \in DOMAIN conns : conns[k].state = "collected") => pool.active_connections = 0

\* The end of the demo: three connections created and all collected.
C14_AllThreeCollected ==
    /\ pool = [active_connections |-> 0, total_created |-> 3]
    /\ returned = <<1, 2, 3>>
    /\ \A k \in DOMAIN conns : conns[k].state = "collected"

(***************************************************************************)
(* weakref.finalize (07_weakref_finalize.py): FileResource (close),        *)
(* ManagedResource (is_alive, cleanup) and SafeResource keep the finalizer *)
(* they register in self.finalizer; the finalizer holds only a weak        *)
(* reference to the object and is called by the interpreter when the       *)
(* object is collected.                                                    *)
(***************************************************************************)
MaxResources == 2
MaxCalls == 2
Resources == 1 .. MaxResources

\* The classes and the name of their explicit clean-up method ("": none).
ResourceClasses == {"FileResource", "ManagedResource", "SafeResource"}
CleanupMethod(class) ==
    CASE class = "FileResource" -> "close"
      [] class = "ManagedResource" -> "cleanup"
      [] OTHER -> ""

\* A finalizer that runs its callback whenever it is called.
FinalizeCallAlways(r, by) == [r EXCEPT !.alive = FALSE, !.runs = @ + 1, !.by = by]

\* finalize.__call__: runs the callback if the finalizer is alive, and the
\* finalizer is dead from then on; a dead finalizer does nothing
FinalizeCall(r, by) ==
    IF r.alive THEN [r EXCEPT !.alive = FALSE, !.runs = @ + 1, !.by = by]
    ELSE r

\* close() / cleanup(): if self.finalizer.alive: self.finalizer()
ExplicitCleanup(r) == IF r.alive THEN FinalizeCall(r, "explicit") ELSE r

NoResource ==
    [class |-> "", state |-> "none", alive |-> FALSE, runs |-> 0, by |-> "", calls |-> 0]

FinInit ==
    /\ res = [i \in Resources |-> NoResource]
    /\ fin_read = [res |-> 0, value |-> FALSE, runs |-> 0]
    /\ OldIdle /\ ScopeIdle /\ LazyIdle /\ EmitIdle /\ PoolIdle

\* r = FileResource(...) / ManagedResource(...) / SafeResource(...):
\* __init__ registers the finalizer
CreateResource(i) ==
    /\ res[i].state = "none"
    /\ \E class \in ResourceClasses :
          res' = [res EXCEPT ![i] = [NoResource EXCEPT !.class = class,
                                        !.state = "alive", !.alive = TRUE]]
    /\ UNCHANGED <<fin_read, notFin>>

\* r.close() / r.cleanup()
CallCleanup(i) ==
    /\ res[i].state = "alive"
    /\ CleanupMethod(res[i].class) # ""
    /\ res[i].calls < MaxCalls
    /\ res' = [res EXCEPT ![i] = [ExplicitCleanup(@) EXCEPT !.calls = @ + 1]]
    /\ UNCHANGED <<fin_read, notFin>>

\* r.is_alive()
CallIsAlive(i) ==
    /\ res[i].state = "alive"
    /\ res[i].class = "ManagedResource"
    /\ fin_read' = [res |-> i, value |-> res[i].alive, runs |-> res[i].runs]
    /\ UNCHANGED <<res, notFin>>

\* del r
DelResource(i) ==
    /\ res[i].state = "alive"
    /\ res' = [res EXCEPT ![i].state = "unreferenced"]
    /\ UNCHANGED <<fin_read, notFin>>

\* the interpreter frees the object and calls its finalizer
CollectResource(i) ==
    /\ res[i].state = "unreferenced"
    /\ res' = [res EXCEPT ![i] = [FinalizeCall(@, "collection") EXCEPT
                                     !.state = "collected"]]
    /\ UNCHANGED <<fin_read, notFin>>

FinNext ==
    \/ \E i \in Resources : CreateResource(i)
    \/ \E i \in Resources : CallCleanup(i)
    \/ \E i \in Resources : CallIsAlive(i)
    \/ \E i \in Resources : DelResource(i)
    \/ \E i \in Resources : CollectResource(i)

SpecFin == FinInit /\ [][FinNext]_vars

====
